---- MODULE Spec2Model ----
(***************************************************************************)
(* The mail listener of src/python/listener_20251031/listener.py: the      *)
(* Outlook ItemAdd callback writes one JSON job file per matching mail     *)
(* item into the queue directory and submits it to a process-wide single   *)
(* worker ThreadPoolExecutor; the executor thread runs the external worker *)
(* (app_ui.py --mode=worker) with subprocess.run and archives the job file *)
(* when the worker exits 0.                                                *)
(***************************************************************************)
EXTENDS Integers, Sequences, FiniteSets, TLC

(***************************************************************************)
(* Bounds of the model.                                                    *)
(***************************************************************************)
\* number of mail items delivered to OnItemAdd in one run
MaxItems == 2
\* clock readings per wall-clock second (granularity of time.time_ns())
TicksPerSec == 2
\* last clock reading of a run, in ticks since the start
MaxClock == 2

\* threads that can call OnItemAdd: the thread of main() that pumps the COM
\* messages, and a second thread for the executions in which the callback is
\* entered concurrently
Callers == {"pump", "second"}
\* the thread main() pumps messages on, listener.py lines 484-486
PumpThread == {"pump"}

(***************************************************************************)
(* Program constants.                                                      *)
(***************************************************************************)
\* olMailItem, listener.py line 359
olMailItem == 43
\* the class of an item that is not a mail item (a meeting request)
olMeetingRequest == olMailItem + 10

\* KEYWORDS, listener.py line 23, as sequences of characters
KEYWORDS ==
  << <<"e","s","k","e","r"," ","v","e","n","d","o","r"," ","e","m","a","i","l">>,
     <<"e","s","k","e","r"," ","g","l"," ","e","m","a","i","l">> >>

UpperChars ==
  <<"A","B","C","D","E","F","G","H","I","J","K","L","M",
    "N","O","P","Q","R","S","T","U","V","W","X","Y","Z">>
LowerChars ==
  <<"a","b","c","d","e","f","g","h","i","j","k","l","m",
    "n","o","p","q","r","s","t","u","v","w","x","y","z">>

\* str.lower() on one character
LowerChar(ch) ==
  IF \E i \in 1..26 : UpperChars[i] = ch
    THEN LowerChars[CHOOSE i \in 1..26 : UpperChars[i] = ch]
    ELSE ch

\* str.lower()
Lower(s) == [i \in 1..Len(s) |-> LowerChar(s[i])]

\* k in s  (substring test of Python's str.__contains__)
Contains(s, k) ==
  \E off \in 0..(Len(s) - Len(k)) : \A i \in 1..Len(k) : s[off + i] = k[i]

\* a Subject attribute: None, or a string
NoneSubject == [isNone |-> TRUE, text |-> <<>>]
Str(s) == [isNone |-> FALSE, text |-> s]

\* subj or ""
OrEmpty(subj) == IF subj.isNone THEN <<>> ELSE subj.text

\* subject_hit with the containment the wrong way round (s in k)
subject_hit_reversed(subj) ==
  LET s == Lower(OrEmpty(subj))
  IN  \E i \in 1..Len(KEYWORDS) : Contains(KEYWORDS[i], s)

\* subject_hit, listener.py lines 41-43
subject_hit(subj) ==
  LET s == Lower(OrEmpty(subj))
  IN  \E i \in 1..Len(KEYWORDS) : Contains(s, KEYWORDS[i])

(***************************************************************************)
(* Mail items.  An item is what OnItemAdd reads of it: Class, Subject,     *)
(* SenderEmailAddress, Body, ReceivedTime; EntryID is the item's position  *)
(* in the Inbox.                                                           *)
(***************************************************************************)
SubjBatch ==
  <<"E","S","K","E","R"," ","V","E","N","D","O","R"," ","E","M","A","I","L",
    " ","-"," ","b","a","t","c","h"," ","1","2">>
SubjGl == <<"F","W",":"," ","E","s","k","e","r"," ","G","L"," ","E","m","a","i","l">>
SubjNews ==
  <<"Q","u","a","r","t","e","r","l","y"," ","n","e","w","s","l","e","t","t","e","r">>
SubjNear == <<"e","s","k","e","r"," ","v","e","n","d","o","r">>

\* ReceivedTime: a pywintypes datetime, a COM date without strftime, or an
\* attribute whose read raises
RecvDatetime == [kind |-> "datetime", iso |-> "2025-10-31T08:00:00Z", str |-> "2025-10-31 08:00:00+00:00"]
RecvOpaque == [kind |-> "opaque", iso |-> "", str |-> "45961.33"]
RecvRaises == [kind |-> "raises", iso |-> "", str |-> ""]

Mail(class, subj, recv) ==
  [Class |-> class, Subject |-> subj, SenderEmailAddress |-> "ap@vendor.example",
   Body |-> "Vendor 1001", ReceivedTime |-> recv]

\* no item: the caller is outside OnItemAdd
NoItem == Mail(0, NoneSubject, RecvRaises)

MailItems ==
  { Mail(olMailItem, Str(SubjBatch), RecvDatetime),
    Mail(olMailItem, Str(SubjGl), RecvOpaque),
    Mail(olMailItem, Str(SubjBatch), RecvRaises),
    Mail(olMailItem, Str(SubjNews), RecvDatetime),
    Mail(olMailItem, Str(SubjNear), RecvDatetime),
    Mail(olMailItem, Str(<<>>), RecvDatetime),
    Mail(olMailItem, NoneSubject, RecvDatetime),
    Mail(olMeetingRequest, Str(SubjBatch), RecvDatetime) }

\* recv.strftime("%Y-%m-%dT%H:%M:%SZ"), or str(recv) when strftime raises;
\* listener.py lines 369-372
RecvStr(recv) == IF recv.kind = "datetime" THEN recv.iso ELSE recv.str

\* the payload dict of OnItemAdd, listener.py lines 374-380
Payload(item, entryId) ==
  [subject |-> item.Subject,
   sender_address |-> item.SenderEmailAddress,
   received_utc |-> RecvStr(item.ReceivedTime),
   body |-> item.Body,
   entry_id |-> entryId]

(***************************************************************************)
(* File names and directories.                                             *)
(***************************************************************************)
\* time.strftime("%Y%m%d_%H%M%S") of a clock reading: the whole second
Strftime(t) == t \div TicksPerSec
\* time.time_ns() % 1_000_000_000 of a clock reading: the part below the second
TimeNsFrac(t) == t % TicksPerSec

\* f"{ts}_{ns:09d}.json": both fields have a fixed width, so a name is the
\* pair and the names sort as the pairs do
FileName(tsField, nsField) == [ts |-> tsField, ns |-> nsField]

\* lexicographic order of two file names
NameLess(a, b) == a.ts < b.ts \/ (a.ts = b.ts /\ a.ns < b.ns)

NoName == [ts |-> -1, ns |-> -1]

\* a directory is a function from the names of its files to their contents
EmptyDir == [n \in {} |-> 0]
HasFile(dir, n) == n \in DOMAIN dir
\* Path.write_text / shutil.copy2 onto dir/n: creates or replaces the file
PutFile(dir, n, content) ==
  [x \in (DOMAIN dir) \cup {n} |-> IF x = n THEN content ELSE dir[x]]
\* Path.unlink
RemoveFile(dir, n) == [x \in (DOMAIN dir) \ {n} |-> dir[x]]

(***************************************************************************)
(* The executor.                                                           *)
(***************************************************************************)
\* a pool of two worker threads
max_workers_two == 1 + 1
\* max_workers of the ThreadPoolExecutor, listener.py line 412
max_workers == 1

\* executors an execution can construct, and the threads of each
ExecutorIds == 1..MaxItems
Threads == ExecutorIds \X (1..MaxItems)
\* _executor = None, listener.py line 38
None == 0

VARIABLES
  now,        \* the wall clock: its latest reading, in ticks
  delivered,  \* number of items the Inbox has raised ItemAdd for
  pc,         \* per caller: where its OnItemAdd call stands
  item,       \* per caller: the item its OnItemAdd call was given
  cur,        \* per caller: EntryID of that item (its arrival number)
  ts,         \* per caller: local ts of write_temp_json
  path,       \* per caller: local p / json_path
  exc,        \* per caller: the exception OnItemAdd caught
  exe,        \* per caller: local executor of enqueue_worker
  queueDir,   \* QUEUE_DIR
  downloads,  \* the Downloads backup directory
  archive,    \* ARCHIVE_SUCCESS_DIR
  written,    \* names written by write_temp_json, in order of the writes
  errLog,     \* esker_listener_errors.log
  escaped,    \* exceptions that left OnItemAdd
  lock,       \* _executor_lock: None or the caller holding it
  executor,   \* _executor: None or an executor id
  nExecutors, \* executors constructed so far
  queue,      \* per executor: its work queue
  nThreads,   \* per executor: worker threads started
  submitted,  \* paths passed to executor.submit, in order of the calls
  wpc,        \* per worker thread: where it stands
  wjob,       \* per worker thread: json_path of the task it runs
  wrc,        \* per worker thread: result.returncode
  wexc,       \* per worker thread: the exception worker_task caught
  runnerLog,  \* esker_listener_runner.log
  workerOut   \* console lines printed by run_worker

listenerVars == <<delivered, pc, item, cur, ts, path, exc, exe, written, errLog, escaped>>
dirVars == <<queueDir, downloads, archive>>
executorVars == <<lock, executor, nExecutors, queue, nThreads, submitted>>
workerVars == <<wpc, wjob, wrc, wexc, runnerLog, workerOut>>

\* merge-pdf.py: the state of one call of merge_pdfs_in_folder
VARIABLES
  mpc,             \* where the call stands
  pdfs,            \* per file <<base, num>> of the source folder: what reading it gives
  present,         \* the files that are in the source folder
  dest,            \* dest_dir: per name of a merged file, its number of pages
  quarantine,      \* the files moved under _quarantine
  dry_run,         \* parameter dry_run
  overwrite,       \* parameter overwrite
  cleanup_mode,    \* parameter cleanup_mode
  groups,          \* the bases the loop of line 188 has still to visit
  base,            \* the base of the group at hand
  files,           \* merge_one_group: the files still to read
  writer,          \* len(writer.pages)
  processed_files, \* merge_one_group: processed
  page_counts,     \* merge_one_group: page_counts
  clean            \* cleanup_originals: the files still to visit

mergeVars == <<mpc, pdfs, present, dest, quarantine, dry_run, overwrite, cleanup_mode, groups,
               base, files, writer, processed_files, page_counts, clean>>

\* outlook_mapi.py: the state of one call of get_esker_vendor_updates_df
VARIABLES
  opc,                      \* where the call stands
  subject_keywords,         \* parameter subject_keywords
  subject_phrases,          \* parameter subject_phrases
  min_keyword_hits,         \* parameter min_subject_keyword_hits
  DEFAULT_SUBJECT_KEYWORDS, \* the module global of that name
  DEFAULT_SUBJECT_PHRASES,  \* the module global of that name
  restricted,               \* the recent messages still to scan, by Subject
  scanned,                  \* the subjects that reached line 210, in order
  yielded,                  \* per scanned message: was it yielded
  ensure_running,           \* init_outlook: parameter ensure_running
  co_initialize,            \* calls of pythoncom.CoInitialize
  co_uninitialize           \* calls of pythoncom.CoUninitialize

mapiVars == <<opc, subject_keywords, subject_phrases, min_keyword_hits,
              DEFAULT_SUBJECT_KEYWORDS, DEFAULT_SUBJECT_PHRASES, restricted,
              scanned, yielded, ensure_running, co_initialize, co_uninitialize>>

\* app_ui.py: the state of one call of vendor_update_process
VARIABLES
  upc,                \* where the call stands
  df_vendor_update,   \* parameter df_vendor_update: its rows, in index order
  row_i,              \* the loop variable i (counted from 1)
  typed,              \* the form steps tried: <<row, field, done without exception>>
  list_company_code,  \* the module global of that name
  list_vendor_number  \* the module global of that name

uiVars == <<upc, df_vendor_update, row_i, typed, list_company_code, list_vendor_number>>

\* one call of get_outlook_namespace (listener.py 283-352)
VARIABLES
  npc,                \* where the call stands
  retries_arg,        \* the retries the caller passed
  retries,            \* the retries parameter of the innermost frame
  binding,            \* how the application object at hand was bound
  calls               \* the COM and cache calls made so far, with their outcome

nsVars == <<npc, retries_arg, retries, binding, calls>>

\* one call of ensure_outlook_typelib (listener.py 60-122)
VARIABLES
  tpc,                \* where the call stands
  app,                \* the app argument
  tl_retries,         \* the retries argument
  candidates,         \* the local list of type-library versions
  attempts,           \* the local of that name
  attempt,            \* the outer loop's variable
  cand,               \* the index of the inner loop in candidates
  module,             \* the local of that name
  err,                \* the local of that name
  last_err,           \* the local of that name
  cleared,            \* the passes after which the cache was cleared and rebuilt
  tried               \* the (attempt, candidate index) pairs whose module was loaded

tlVars == <<tpc, app, tl_retries, candidates, attempts, attempt, cand, module,
            err, last_err, cleared, tried>>

\* the two start-up helpers of the listener
startVars == <<nsVars, tlVars>>

\* the state of the programs other than the listener's handler and merge-pdf.py
auxVars == <<mapiVars, uiVars, startVars>>
vars == <<now, listenerVars, dirVars, executorVars, workerVars, mergeVars, auxVars>>

\* the listener before the first ItemAdd
ListenerInit ==
  /\ now = 0
  /\ delivered = 0
  /\ pc = [c \in Callers |-> "idle"]
  /\ item = [c \in Callers |-> NoItem]
  /\ cur = [c \in Callers |-> 0]
  /\ ts = [c \in Callers |-> -1]
  /\ path = [c \in Callers |-> NoName]
  /\ exc = [c \in Callers |-> "none"]
  /\ exe = [c \in Callers |-> None]
  /\ queueDir = EmptyDir
  /\ downloads = EmptyDir
  /\ archive = EmptyDir
  /\ written = <<>>
  /\ errLog = <<>>
  /\ escaped = 0
  /\ lock = "free"
  /\ executor = None
  /\ nExecutors = 0
  /\ queue = [e \in ExecutorIds |-> <<>>]
  /\ nThreads = [e \in ExecutorIds |-> 0]
  /\ submitted = <<>>
  /\ wpc = [t \in Threads |-> "unstarted"]
  /\ wjob = [t \in Threads |-> NoName]
  /\ wrc = [t \in Threads |-> -1]
  /\ wexc = [t \in Threads |-> "none"]
  /\ runnerLog = <<>>
  /\ workerOut = <<>>

\* merge_pdfs_in_folder is not called
MergeOff ==
  /\ mpc = "off"
  /\ pdfs = <<>>
  /\ present = {}
  /\ dest = <<>>
  /\ quarantine = {}
  /\ dry_run = FALSE
  /\ overwrite = FALSE
  /\ cleanup_mode = "off"
  /\ groups = {}
  /\ base = ""
  /\ files = <<>>
  /\ writer = 0
  /\ processed_files = <<>>
  /\ page_counts = <<>>
  /\ clean = <<>>

\* get_esker_vendor_updates_df is not called
MapiOff ==
  /\ opc = "off"
  /\ subject_keywords = <<>>
  /\ subject_phrases = <<>>
  /\ min_keyword_hits = 1
  /\ DEFAULT_SUBJECT_KEYWORDS = <<>>
  /\ DEFAULT_SUBJECT_PHRASES = <<>>
  /\ restricted = <<>>
  /\ scanned = <<>>
  /\ yielded = <<>>
  /\ ensure_running = TRUE
  /\ co_initialize = 0
  /\ co_uninitialize = 0

\* vendor_update_process is not called
UiOff ==
  /\ upc = "off"
  /\ df_vendor_update = <<>>
  /\ row_i = 1
  /\ typed = <<>>
  /\ list_company_code = <<>>
  /\ list_vendor_number = <<>>

\* the value None where a module is expected, told from every set of
\* attributes
NoModule == {"None"}

\* get_outlook_namespace is not being called
NsOff ==
  /\ npc = "off"
  /\ retries_arg = 0
  /\ retries = 0
  /\ binding = "none"
  /\ calls = <<>>

\* ensure_outlook_typelib is not being called
TlOff ==
  /\ tpc = "off"
  /\ app = "None"
  /\ tl_retries = 0
  /\ candidates = <<>>
  /\ attempts = 0
  /\ attempt = 0
  /\ cand = 1
  /\ module = NoModule
  /\ err = "None"
  /\ last_err = "None"
  /\ cleared = <<>>
  /\ tried = {}

StartOff == NsOff /\ TlOff

AuxOff == MapiOff /\ UiOff /\ StartOff

Init == ListenerInit /\ MergeOff /\ AuxOff

\* the readings the clock can give after it gave the reading t: the clock does
\* not run backwards, and it may still stand at t
ClockReadings == [t \in 0..MaxClock |-> t..MaxClock]

(***************************************************************************)
(* OnItemAdd, listener.py lines 356-397, on caller c.                      *)
(***************************************************************************)
\* the Inbox raises ItemAdd and the COM runtime calls OnItemAdd(item) on c
Deliver(c, it) ==
  /\ pc[c] = "idle"
  /\ delivered < MaxItems
  /\ delivered' = delivered + 1
  /\ item' = [item EXCEPT ![c] = it]
  /\ cur' = [cur EXCEPT ![c] = delivered + 1]
  /\ pc' = [pc EXCEPT ![c] = "OnItemAdd"]
  /\ UNCHANGED <<now, ts, path, exc, exe, written, errLog, escaped,
                 dirVars, executorVars, workerVars>>
  /\ UNCHANGED <<mergeVars, auxVars>>

\* OnItemAdd returns: its locals are gone
Return(c) ==
  /\ pc' = [pc EXCEPT ![c] = "idle"]
  /\ item' = [item EXCEPT ![c] = NoItem]
  /\ cur' = [cur EXCEPT ![c] = 0]
  /\ ts' = [ts EXCEPT ![c] = -1]
  /\ path' = [path EXCEPT ![c] = NoName]
  /\ exc' = [exc EXCEPT ![c] = "none"]
  /\ exe' = [exe EXCEPT ![c] = None]

\* lines 357-380: the filter on Class and Subject, and the field extraction
OnItemAdd(c) ==
  /\ pc[c] = "OnItemAdd"
  /\ IF item[c].Class # olMailItem \/ ~subject_hit(item[c].Subject)
       THEN Return(c)
       ELSE IF item[c].ReceivedTime.kind = "raises"
              THEN /\ pc' = [pc EXCEPT ![c] = "except"]
                   /\ exc' = [exc EXCEPT ![c] = "ReceivedTime"]
                   /\ UNCHANGED <<item, cur, ts, path, exe>>
              ELSE /\ pc' = [pc EXCEPT ![c] = "strftime"]
                   /\ UNCHANGED <<item, cur, ts, path, exc, exe>>
  /\ UNCHANGED <<now, delivered, written, errLog, escaped,
                 dirVars, executorVars, workerVars>>
  /\ UNCHANGED <<mergeVars, auxVars>>

\* write_temp_json lines 47-49: the queue directory exists, ts is read
ReadTs(c, t) ==
  /\ pc[c] = "strftime"
  /\ now' = t
  /\ ts' = [ts EXCEPT ![c] = Strftime(t)]
  /\ pc' = [pc EXCEPT ![c] = "write_text"]
  /\ UNCHANGED <<delivered, item, cur, path, exc, exe, written, errLog,
                 escaped, dirVars, executorVars, workerVars>>
  /\ UNCHANGED <<mergeVars, auxVars>>

\* write_temp_json lines 50-52: the name is completed from time_ns() and the
\* record is written under it; the write raises when the file cannot be opened
WriteText(c, t) ==
  /\ pc[c] = "write_text"
  /\ now' = t
  /\ LET p == FileName(ts[c], TimeNsFrac(t))
     IN  \/ /\ path' = [path EXCEPT ![c] = p]
            /\ queueDir' = PutFile(queueDir, p, Payload(item[c], cur[c]))
            /\ written' = Append(written, p)
            /\ pc' = [pc EXCEPT ![c] = "copy2"]
            /\ UNCHANGED exc
         \/ /\ exc' = [exc EXCEPT ![c] = "write_text"]
            /\ pc' = [pc EXCEPT ![c] = "except"]
            /\ UNCHANGED <<path, queueDir, written>>
  /\ UNCHANGED <<delivered, item, cur, ts, exe, errLog, escaped,
                 downloads, archive, executorVars, workerVars>>
  /\ UNCHANGED <<mergeVars, auxVars>>

\* write_temp_json lines 54-57: the backup copy to Downloads, then the return
\* of the path; mkdir or copy2 raising leaves write_temp_json by the exception
BackupCopy(c) ==
  /\ pc[c] = "copy2"
  /\ \/ /\ HasFile(queueDir, path[c])
        /\ downloads' = PutFile(downloads, path[c], queueDir[path[c]])
        /\ pc' = [pc EXCEPT ![c] = "enqueue"]
        /\ UNCHANGED exc
     \/ /\ exc' = [exc EXCEPT ![c] = "copy2"]
        /\ pc' = [pc EXCEPT ![c] = "except"]
        /\ UNCHANGED downloads
  /\ UNCHANGED <<now, delivered, item, cur, ts, path, exe, written, errLog,
                 escaped, queueDir, archive, executorVars, workerVars>>
  /\ UNCHANGED <<mergeVars, auxVars>>

\* lines 393-397: the handler appends a line to the error log; opening the log
\* raises out of OnItemAdd when it fails
OnItemAddExcept(c) ==
  /\ pc[c] = "except"
  /\ \/ /\ errLog' = Append(errLog, exc[c])
        /\ UNCHANGED escaped
     \/ /\ escaped' = escaped + 1
        /\ UNCHANGED errLog
  /\ Return(c)
  /\ UNCHANGED <<now, delivered, written, dirVars, executorVars, workerVars>>
  /\ UNCHANGED <<mergeVars, auxVars>>

(***************************************************************************)
(* enqueue_worker and ensure_worker_executor, listener.py lines 400-413.   *)
(***************************************************************************)
\* every caller passes the lock, whoever holds it
LockIgnored == TRUE
\* line 410, "with _executor_lock": the lock can be taken when no thread holds it
LockAvailable == lock = "free"

\* lines 402-403 and 410: enqueue_worker is entered and the lock is taken
EnsureAcquire(c) ==
  /\ pc[c] = "enqueue"
  /\ LockAvailable
  /\ lock' = c
  /\ pc' = [pc EXCEPT ![c] = "locked"]
  /\ UNCHANGED <<now, delivered, item, cur, ts, path, exc, exe, written,
                 errLog, escaped, dirVars, executor, nExecutors, queue,
                 nThreads, submitted, workerVars>>
  /\ UNCHANGED <<mergeVars, auxVars>>

\* line 411 and, when an executor exists, line 413: _executor is tested; the
\* existing executor is returned and the lock released
EnsureCheck(c) ==
  /\ pc[c] = "locked"
  /\ IF executor = None
       THEN /\ pc' = [pc EXCEPT ![c] = "construct"]
            /\ UNCHANGED <<exe, lock>>
       ELSE /\ exe' = [exe EXCEPT ![c] = executor]
            /\ lock' = "free"
            /\ pc' = [pc EXCEPT ![c] = "submit"]
  /\ UNCHANGED <<now, delivered, item, cur, ts, path, exc, written, errLog,
                 escaped, dirVars, executor, nExecutors, queue, nThreads,
                 submitted, workerVars>>
  /\ UNCHANGED <<mergeVars, auxVars>>

\* lines 412-413: no executor was found, so one is constructed, stored in
\* _executor and returned, and the lock is released
EnsureCreate(c) ==
  /\ pc[c] = "construct"
  /\ executor' = nExecutors + 1
  /\ nExecutors' = nExecutors + 1
  /\ exe' = [exe EXCEPT ![c] = executor']
  /\ lock' = "free"
  /\ pc' = [pc EXCEPT ![c] = "submit"]
  /\ UNCHANGED <<now, delivered, item, cur, ts, path, exc, written, errLog,
                 escaped, dirVars, queue, nThreads, submitted, workerVars>>
  /\ UNCHANGED <<mergeVars, auxVars>>

\* the caller runs worker_task itself and stays in subprocess.run
SubmitInline(c) ==
  /\ pc[c] = "submit"
  /\ pc' = [pc EXCEPT ![c] = "run_worker"]
  /\ UNCHANGED <<now, delivered, item, cur, ts, path, exc, exe, written,
                 errLog, escaped, dirVars, executorVars, workerVars>>
  /\ UNCHANGED <<mergeVars, auxVars>>
\* line 404, executor.submit(worker_task, json_path): the task is appended to
\* the executor's work queue, and ThreadPoolExecutor starts one more worker
\* thread as long as it has fewer than max_workers
Submit(c) ==
  /\ pc[c] = "submit"
  /\ LET e == exe[c]
     IN  /\ queue' = [queue EXCEPT ![e] = Append(@, path[c])]
         /\ IF nThreads[e] < max_workers
              THEN /\ nThreads' = [nThreads EXCEPT ![e] = @ + 1]
                   /\ wpc' = [wpc EXCEPT ![<<e, nThreads[e] + 1>>] = "idle"]
              ELSE UNCHANGED <<nThreads, wpc>>
  /\ submitted' = Append(submitted, path[c])
  /\ Return(c)
  /\ UNCHANGED <<now, delivered, written, errLog, escaped,
                 dirVars, lock, executor, nExecutors,
                 wjob, wrc, wexc, runnerLog, workerOut>>
  /\ UNCHANGED <<mergeVars, auxVars>>

(***************************************************************************)
(* worker_task and run_worker, listener.py lines 416-456, on the worker    *)
(* thread t of an executor.  The operations that can raise are the ones    *)
(* the specification speaks of: starting the external command, the log     *)
(* write and the archive copy inside run_worker, and the delete of the     *)
(* original.  The append of worker_task's own handler (line 422) is taken  *)
(* to succeed.                                                             *)
(***************************************************************************)
\* the thread dies with the exception instead of returning to the pool
TaskDoneThreadDies(t) ==
  /\ wpc' = [wpc EXCEPT ![t] = "dead"]
  /\ wjob' = [wjob EXCEPT ![t] = NoName]
  /\ wrc' = [wrc EXCEPT ![t] = -1]
  /\ wexc' = [wexc EXCEPT ![t] = "none"]
\* worker_task returns: its locals are gone and the thread waits on the queue
TaskDone(t) ==
  /\ wpc' = [wpc EXCEPT ![t] = "idle"]
  /\ wjob' = [wjob EXCEPT ![t] = NoName]
  /\ wrc' = [wrc EXCEPT ![t] = -1]
  /\ wexc' = [wexc EXCEPT ![t] = "none"]

ConsoleLine(kind, job) == [kind |-> kind, job |-> job]
LogLine(kind, job, rc) == [kind |-> kind, job |-> job, rc |-> rc]

\* the newest task of the work queue
NextTaskNewest(q) == q[Len(q)]
\* the work queue is first in, first out: the task a thread takes
NextTask(q) == Head(q)
\* the waiting tasks thrown away when one is taken
RestTasksDropped(q) == <<>>
\* the tasks left in the work queue
RestTasks(q) == Tail(q)

\* an exit code other than 0 taken for success
SucceededNonzero(rc) == rc # 0
\* line 447: result.returncode == 0
Succeeded(rc) == rc = 0

\* the error line without the name of the job
ErrorLineUnnamed(job, e) == LogLine("error", NoName, e)
\* line 423: "worker_task error for {json_path.name}: {exc}"
ErrorLine(job, e) == LogLine("error", job, e)

\* the archive copy under the bare stem of the job file
ArchivePathStem(job) == [ts |-> job.ts, ns |-> -1]
\* line 449: ARCHIVE_SUCCESS_DIR / json_path.name
ArchivePath(job) == job

\* the thread takes the next task of its executor's queue and runs
\* worker_task up to the "Starting automation" line (lines 419, 428-435)
TakeTask(t) ==
  /\ wpc[t] = "idle"
  /\ queue[t[1]] # <<>>
  /\ wjob' = [wjob EXCEPT ![t] = NextTask(queue[t[1]])]
  /\ queue' = [queue EXCEPT ![t[1]] = RestTasks(@)]
  /\ workerOut' = Append(workerOut, ConsoleLine("starting", NextTask(queue[t[1]])))
  /\ wpc' = [wpc EXCEPT ![t] = "launch"]
  /\ UNCHANGED <<wrc, wexc>>
  /\ UNCHANGED <<now, listenerVars, dirVars, lock, executor, nExecutors,
                 nThreads, submitted, runnerLog>>
  /\ UNCHANGED <<mergeVars, auxVars>>

\* line 436: subprocess.run starts the external worker, or raises when the
\* command cannot be started
Launch(t) ==
  /\ wpc[t] = "launch"
  /\ \/ /\ wpc' = [wpc EXCEPT ![t] = "running"]
        /\ UNCHANGED wexc
     \/ /\ wpc' = [wpc EXCEPT ![t] = "except"]
        /\ wexc' = [wexc EXCEPT ![t] = "launch"]
  /\ UNCHANGED <<now, listenerVars, dirVars, executorVars,
                 wjob, wrc, runnerLog, workerOut>>
  /\ UNCHANGED <<mergeVars, auxVars>>

\* exit codes of the external worker
ExitCodes == {0, 1}

\* line 436: the external worker exits and subprocess.run returns
WorkerExit(t, rc) ==
  /\ wpc[t] = "running"
  /\ wrc' = [wrc EXCEPT ![t] = rc]
  /\ wpc' = [wpc EXCEPT ![t] = "log"]
  /\ UNCHANGED <<now, listenerVars, dirVars, executorVars,
                 wjob, wexc, runnerLog, workerOut>>
  /\ UNCHANGED <<mergeVars, auxVars>>

\* lines 438-447 and 455-456: the "ran ... -> rc" line is appended to the
\* runner log (opening the log may raise); a nonzero exit code prints the
\* failure line and run_worker returns
WriteLog(t) ==
  /\ wpc[t] = "log"
  /\ \/ /\ runnerLog' = Append(runnerLog, LogLine("ran", wjob[t], wrc[t]))
        /\ IF Succeeded(wrc[t])
             THEN /\ wpc' = [wpc EXCEPT ![t] = "archive"]
                  /\ UNCHANGED <<wjob, wrc, wexc, workerOut>>
             ELSE /\ TaskDone(t)
                  /\ workerOut' = Append(workerOut, ConsoleLine("failed", wjob[t]))
     \/ /\ wpc' = [wpc EXCEPT ![t] = "except"]
        /\ wexc' = [wexc EXCEPT ![t] = "log"]
        /\ UNCHANGED <<wjob, wrc, runnerLog, workerOut>>
  /\ UNCHANGED <<now, listenerVars, dirVars, executorVars>>
  /\ UNCHANGED <<mergeVars, auxVars>>

\* lines 448-449: the archive directory is made and the job file copied into
\* it; copy2 raises when the job file is gone or the copy fails
ArchiveCopy(t) ==
  /\ wpc[t] = "archive"
  /\ \/ /\ HasFile(queueDir, wjob[t])
        /\ archive' = PutFile(archive, ArchivePath(wjob[t]), queueDir[wjob[t]])
        /\ wpc' = [wpc EXCEPT ![t] = "unlink"]
        /\ UNCHANGED wexc
     \/ /\ wpc' = [wpc EXCEPT ![t] = "except"]
        /\ wexc' = [wexc EXCEPT ![t] = "copy2"]
        /\ UNCHANGED archive
  /\ UNCHANGED <<now, listenerVars, queueDir, downloads, executorVars,
                 wjob, wrc, runnerLog, workerOut>>
  /\ UNCHANGED <<mergeVars, auxVars>>

\* lines 450-454: the original is deleted, an OSError of unlink is passed
\* over, and the "Worker completed" line is printed
Unlink(t) ==
  /\ wpc[t] = "unlink"
  /\ \/ queueDir' = RemoveFile(queueDir, wjob[t])
     \/ UNCHANGED queueDir
  /\ workerOut' = Append(workerOut, ConsoleLine("completed", wjob[t]))
  /\ TaskDone(t)
  /\ UNCHANGED <<now, listenerVars, downloads, archive, executorVars, runnerLog>>
  /\ UNCHANGED <<mergeVars, auxVars>>

\* lines 420-423: worker_task catches the exception of run_worker and appends
\* the "worker_task error for <name>" line to the runner log (the append of
\* the handler itself is taken to succeed)
WorkerTaskExcept(t) ==
  /\ wpc[t] = "except"
  /\ runnerLog' = Append(runnerLog, ErrorLine(wjob[t], wexc[t]))
  /\ TaskDone(t)
  /\ UNCHANGED <<now, listenerVars, dirVars, executorVars, workerOut>>
  /\ UNCHANGED <<mergeVars, auxVars>>


\* the steps of the program when OnItemAdd is called on the threads cs with
\* items drawn from its, and a clock that reads one of readings[t] after t
NextOf(cs, its, readings) ==
  \/ \E c \in cs, it \in its : Deliver(c, it)
  \/ \E c \in cs : OnItemAdd(c)
  \/ \E c \in cs, t \in readings[now] : ReadTs(c, t)
  \/ \E c \in cs, t \in readings[now] : WriteText(c, t)
  \/ \E c \in cs : BackupCopy(c)
  \/ \E c \in cs : OnItemAddExcept(c)
  \/ \E c \in cs : EnsureAcquire(c)
  \/ \E c \in cs : EnsureCheck(c)
  \/ \E c \in cs : EnsureCreate(c)
  \/ \E c \in cs : Submit(c)
  \/ \E t \in Threads : TakeTask(t)
  \/ \E t \in Threads : Launch(t)
  \/ \E t \in Threads, rc \in ExitCodes : WorkerExit(t, rc)
  \/ \E t \in Threads : WriteLog(t)
  \/ \E t \in Threads : ArchiveCopy(t)
  \/ \E t \in Threads : Unlink(t)
  \/ \E t \in Threads : WorkerTaskExcept(t)

\* the listener as main() runs it: every ItemAdd is delivered on the pump thread
Next == NextOf(PumpThread, MailItems, ClockReadings)

Spec == Init /\ [][Next]_vars

\* the mail items that pass the filter and whose fields can be read
GoodItems == {Mail(olMailItem, Str(SubjBatch), RecvDatetime)}

\* a clock that has moved on by one tick at every reading
SteadyClock == [t \in 0..MaxClock |-> {IF t < MaxClock THEN t + 1 ELSE t}]

\* OnItemAdd entered on two threads at once; what varies is the interleaving
\* of the threads and the failures of the file operations
NextThreads == NextOf(Callers, GoodItems, SteadyClock)

SpecThreads == Init /\ [][NextThreads]_vars

\* the listener on its pump thread, with items that pass the filter and any
\* reading of the clock
NextPump == NextOf(PumpThread, GoodItems, ClockReadings)

\* a step of a worker thread of the executor: taking a task, the steps of
\* worker_task and run_worker, and the exit of the external worker process
WorkerStep ==
  \E t \in Threads :
    \/ TakeTask(t)
    \/ Launch(t)
    \/ \E rc \in ExitCodes : WorkerExit(t, rc)
    \/ WriteLog(t)
    \/ ArchiveCopy(t)
    \/ Unlink(t)
    \/ WorkerTaskExcept(t)

\* the executor's thread is scheduled whenever it can take a step, and every
\* external worker process exits in the end
SpecFair == Init /\ [][NextPump]_vars /\ WF_vars(WorkerStep)

(***************************************************************************)
(* merge-pdf.py: merge_pdfs_in_folder.  The source folder holds the files  *)
(* <base>_<num>.pdf of PdfFiles.  What a file gives when it is read is an  *)
(* input: its pages, whether reading it raises, and how many of its pages  *)
(* merge_one_group has added to the writer when the reading ends.  The     *)
(* failures are: the reading of a file (caught by merge_one_group), the    *)
(* writing of the merged file (not caught: it ends the call), the delete   *)
(* or the move of an original (caught by cleanup_originals).               *)
(***************************************************************************)
MaxPages == 2

\* the files find_groups finds, by base and numeric suffix
PdfFiles == {<<"GI25101227", 1>>, <<"GI25101227", 2>>, <<"GOCL251000159", 1>>}
Bases == {f[1] : f \in PdfFiles}

\* pages: the pages of the file; fails: reading it raises; added: the pages
\* added to the writer when the loop of lines 58-59 ends or raises
PdfKinds ==
  {k \in [pages : 0..MaxPages, fails : BOOLEAN, added : 0..MaxPages] :
     IF k.fails THEN k.added = 0 \/ k.added < k.pages
                ELSE k.added = k.pages}

CleanupModes == {"quarantine", "delete", "off"}

RECURSIVE SortNums(_)
SortNums(S) ==
  IF S = {} THEN <<>>
  ELSE LET m == CHOOSE x \in S : \A y \in S : x <= y
       IN  <<m>> \o SortNums(S \ {m})

\* lines 11-37, find_groups: the files of base b in the order of their suffix
GroupFiles(b) ==
  LET nums == SortNums({f[2] : f \in {g \in present : g[1] = b}})
  IN  [i \in 1..Len(nums) |-> <<b, nums[i]>>]

RECURSIVE SumCounts(_, _)
\* line 194: sum(page_counts.values())
SumCounts(counts, fs) ==
  IF fs = {} THEN 0
  ELSE LET f == CHOOSE x \in fs : TRUE
       IN  counts[f] + SumCounts(counts, fs \ {f})
total_source_pages == SumCounts(page_counts, DOMAIN page_counts)

\* the safeguard passed whatever the counts
SafeguardOff(merged_pages, total) == TRUE
\* line 211: merged_pages == total_source_pages
PagesMatch(merged_pages, total) == merged_pages = total

listenerSide == <<now, listenerVars, dirVars, executorVars, workerVars>>

\* a call of merge_pdfs_in_folder on a folder of readable and broken files
MergeInit ==
  /\ ListenerInit
  /\ AuxOff
  /\ mpc = "find_groups"
  /\ pdfs \in [PdfFiles -> PdfKinds]
  /\ present = PdfFiles
  /\ dest = <<>>
  /\ quarantine = {}
  /\ dry_run \in BOOLEAN
  /\ overwrite \in BOOLEAN
  /\ cleanup_mode \in CleanupModes
  /\ groups = {}
  /\ base = ""
  /\ files = <<>>
  /\ writer = 0
  /\ processed_files = <<>>
  /\ page_counts = <<>>
  /\ clean = <<>>

\* lines 182-187: the groups are found
FindGroups ==
  /\ mpc = "find_groups"
  /\ groups' = {f[1] : f \in present}
  /\ mpc' = "for"
  /\ UNCHANGED <<pdfs, present, dest, quarantine, dry_run, overwrite, cleanup_mode, base,
                 files, writer, processed_files, page_counts, clean>>
  /\ UNCHANGED <<listenerSide, auxVars>>

\* lines 188-192 and 49-51: the loop takes the next group, in the order the
\* folder listing gave, and merge_one_group starts with an empty writer
NextGroup(b) ==
  /\ mpc = "for"
  /\ b \in groups
  /\ groups' = groups \ {b}
  /\ base' = b
  /\ files' = GroupFiles(b)
  /\ writer' = 0
  /\ processed_files' = <<>>
  /\ page_counts' = <<>>
  /\ mpc' = "merge_one_group"
  /\ UNCHANGED <<pdfs, present, dest, quarantine, dry_run, overwrite, cleanup_mode, clean>>
  /\ UNCHANGED <<listenerSide, auxVars>>

\* line 224: every group was visited
ReturnSummary ==
  /\ mpc = "for"
  /\ groups = {}
  /\ mpc' = "returned"
  /\ UNCHANGED <<pdfs, present, dest, quarantine, dry_run, overwrite, cleanup_mode, groups,
                 base, files, writer, processed_files, page_counts, clean>>
  /\ UNCHANGED <<listenerSide, auxVars>>

\* lines 53-69: one file of the group is read; the pages added before the
\* end or the exception stay in the writer; the file is recorded as
\* processed only when the loop ended and added a page
ReadPdf ==
  /\ mpc = "merge_one_group"
  /\ files # <<>>
  /\ LET pdf_path == Head(files)
         before == writer
         added == (before + pdfs[pdf_path].added) - before
     IN  /\ writer' = before + pdfs[pdf_path].added
         /\ IF ~pdfs[pdf_path].fails /\ added > 0
              THEN /\ processed_files' = Append(processed_files, pdf_path)
                   /\ page_counts' =
                        [f \in (DOMAIN page_counts) \cup {pdf_path} |->
                           IF f = pdf_path THEN added ELSE page_counts[f]]
              ELSE UNCHANGED <<processed_files, page_counts>>
  /\ files' = Tail(files)
  /\ UNCHANGED <<mpc, pdfs, present, dest, quarantine, dry_run, overwrite, cleanup_mode,
                 groups, base, clean>>
  /\ UNCHANGED <<listenerSide, auxVars>>

\* lines 192-203: merge_one_group has returned; a group without a merged page
\* is skipped; with dry_run the merged file is only announced
MergedGroup ==
  /\ mpc = "merge_one_group"
  /\ files = <<>>
  /\ LET merged_pages == writer
     IN  mpc' = IF merged_pages = 0 THEN "for"
                ELSE IF dry_run THEN "safeguard"
                ELSE "save_and_move"
  /\ UNCHANGED <<pdfs, present, dest, quarantine, dry_run, overwrite, cleanup_mode, groups,
                 base, files, writer, processed_files, page_counts, clean>>
  /\ UNCHANGED <<listenerSide, auxVars>>

\* lines 81-82: <base>.pdf; line 86: <base>_<stamp>.pdf, the stamp being the
\* local time to the second
PlainName(base_name) == <<base_name>>
StampedName(base_name, stamp) == <<base_name, stamp>>

\* lines 81-86: final_path; t is the reading of datetime.now()
FinalPath(base_name, ow, t) ==
  IF PlainName(base_name) \in DOMAIN dest /\ ~ow
    THEN StampedName(base_name, Strftime(t))
    ELSE PlainName(base_name)

\* lines 74-98, save_and_move: the clock is read when the stamp is needed;
\* the writer is written to the temporary file, which may raise; the
\* temporary file then replaces final_path, whether or not a file is there
\* (after line 95 has deleted it when overwrite is set).  ret is where the
\* caller goes on
save_and_move(base_name, pages, ow, t, ret) ==
  /\ now' = IF PlainName(base_name) \in DOMAIN dest /\ ~ow THEN t ELSE now
  /\ \/ /\ dest' = PutFile(dest, FinalPath(base_name, ow, t), pages)
        /\ mpc' = ret
     \/ /\ mpc' = "raised"
        /\ UNCHANGED dest

\* line 205: merge_pdfs_in_folder saves the merged group; an exception of
\* save_and_move ends the call
SaveAndMove(t) ==
  /\ mpc = "save_and_move"
  /\ save_and_move(base, writer, overwrite, t, "safeguard")
  /\ UNCHANGED <<pdfs, present, quarantine, dry_run, overwrite, cleanup_mode,
                 groups, base, files, writer, processed_files, page_counts, clean>>
  /\ UNCHANGED <<listenerVars, dirVars, executorVars, workerVars, auxVars>>

\* lines 211-222 and 115-122: the safeguard; cleanup_originals is entered
\* with the processed files unless the mode is "off"
Safeguard ==
  /\ mpc = "safeguard"
  /\ IF PagesMatch(writer, total_source_pages) /\ processed_files # <<>>
          /\ cleanup_mode # "off"
       THEN /\ clean' = processed_files
            /\ mpc' = "cleanup_originals"
       ELSE /\ mpc' = "for"
            /\ UNCHANGED clean
  /\ UNCHANGED <<pdfs, present, dest, quarantine, dry_run, overwrite, cleanup_mode, groups,
                 base, files, writer, processed_files, page_counts>>
  /\ UNCHANGED <<listenerSide, auxVars>>

\* lines 127-157: cleanup_originals visits one processed file: with dry_run
\* it prints only; otherwise the file is deleted, or moved under _quarantine,
\* and a failure of that is caught and printed
CleanupOne ==
  /\ mpc = "cleanup_originals"
  /\ clean # <<>>
  /\ LET p == Head(clean)
     IN  IF p \notin present \/ dry_run
           THEN UNCHANGED <<present, quarantine>>
           ELSE \/ /\ cleanup_mode = "delete"
                   /\ present' = present \ {p}
                   /\ UNCHANGED quarantine
                \/ /\ cleanup_mode = "quarantine"
                   /\ present' = present \ {p}
                   /\ quarantine' = quarantine \cup {p}
                \/ UNCHANGED <<present, quarantine>>
  /\ clean' = Tail(clean)
  /\ mpc' = IF Tail(clean) = <<>> THEN "for" ELSE "cleanup_originals"
  /\ UNCHANGED <<pdfs, dest, dry_run, overwrite, cleanup_mode, groups, base, files, writer,
                 processed_files, page_counts>>
  /\ UNCHANGED <<listenerSide, auxVars>>

NextMerge ==
  \/ FindGroups
  \/ \E b \in Bases : NextGroup(b)
  \/ ReturnSummary
  \/ ReadPdf
  \/ MergedGroup
  \/ \E t \in ClockReadings[now] : SaveAndMove(t)
  \/ Safeguard
  \/ CleanupOne

SpecMerge == MergeInit /\ [][NextMerge]_vars

\* save_and_move called again and again, for any base, merged pages and
\* overwrite flag, into a dest_dir that is empty at first
SaveInit ==
  /\ ListenerInit
  /\ AuxOff
  /\ mpc = "main"
  /\ pdfs = <<>>
  /\ present = {}
  /\ dest = <<>>
  /\ quarantine = {}
  /\ dry_run = FALSE
  /\ overwrite = FALSE
  /\ cleanup_mode = "off"
  /\ groups = {}
  /\ base = ""
  /\ files = <<>>
  /\ writer = 0
  /\ processed_files = <<>>
  /\ page_counts = <<>>
  /\ clean = <<>>

\* lines 74-98: one call of save_and_move(writer, base_name, dest_dir, overwrite)
CallSaveAndMove(b, pages, ow, t) ==
  /\ mpc = "main"
  /\ base' = b
  /\ writer' = pages
  /\ overwrite' = ow
  /\ save_and_move(b, pages, ow, t, "main")
  /\ UNCHANGED <<pdfs, present, quarantine, dry_run, cleanup_mode, groups,
                 files, processed_files, page_counts, clean>>
  /\ UNCHANGED <<listenerVars, dirVars, executorVars, workerVars, auxVars>>

NextSave ==
  \E b \in Bases, pages \in 1..MaxPages, ow \in BOOLEAN, t \in ClockReadings[now] :
    CallSaveAndMove(b, pages, ow, t)

SpecSave == SaveInit /\ [][NextSave]_vars

(***************************************************************************)
(* outlook_mapi.py: get_esker_vendor_updates_df.  The inputs of a call are *)
(* the caller's keyword and phrase lists, the minimal number of keyword    *)
(* hits, the recent messages of the Inbox (by Subject), and what the COM   *)
(* calls of init_outlook do.                                               *)
(***************************************************************************)
MaxMsgs == 2

KwEsker == <<"e","s","k","e","r">>
KwVendor == <<"v","e","n","d","o","r">>
KwUpdate == <<"u","p","d","a","t","e">>
KwInvoice == <<"i","n","v","o","i","c","e">>
PhEskerVendorUpdate == KwEsker \o <<" ">> \o KwVendor \o <<" ">> \o KwUpdate
PhEskerVendor == KwEsker \o <<" ">> \o KwVendor
PhCreditNote == <<"c","r","e","d","i","t"," ","n","o","t","e">>

\* lines 83-84: the two lists made when the module is loaded; they are the
\* first values of the globals and, from line 86 on, the default values of
\* the parameters keywords and phrases of subject_matches
KeywordsAtDef == <<KwEsker, KwVendor, KwUpdate>>
PhrasesAtDef == <<PhEskerVendorUpdate, PhEskerVendor>>

\* lists a caller may pass
KeywordChoices == {KeywordsAtDef, <<KwInvoice>>}
PhraseChoices == {PhrasesAtDef, <<PhCreditNote>>}

MapiSubjects ==
  { <<"E","s","k","e","r"," ","V","e","n","d","o","r"," ","U","p","d","a","t","e">>,
    <<"I","n","v","o","i","c","e"," ","4","7">>,
    <<"W","i","n","d","o","w","s"," ","u","p","d","a","t","e">>,
    <<"C","r","e","d","i","t"," ","N","o","t","e">> }

\* lines 86-105, subject_matches
subject_matches(subject, keywords, phrases, min_hits) ==
  LET s == Lower(subject)
      hits == Cardinality({i \in 1..Len(keywords) : Contains(s, Lower(keywords[i]))})
  IN  \/ \E i \in 1..Len(phrases) : Contains(s, Lower(phrases[i]))
      \/ hits >= min_hits

\* a call of get_esker_vendor_updates_df
MapiInit ==
  /\ ListenerInit
  /\ MergeOff
  /\ UiOff
  /\ StartOff
  /\ opc = "rebind"
  /\ subject_keywords \in KeywordChoices
  /\ subject_phrases \in PhraseChoices
  /\ min_keyword_hits \in {1, 2}
  /\ DEFAULT_SUBJECT_KEYWORDS = KeywordsAtDef
  /\ DEFAULT_SUBJECT_PHRASES = PhrasesAtDef
  /\ restricted \in UNION {[1..n -> MapiSubjects] : n \in 1..MaxMsgs}
  /\ scanned = <<>>
  /\ yielded = <<>>
  /\ co_initialize = 0
  /\ co_uninitialize = 0
  /\ ensure_running \in BOOLEAN

notMapi == <<listenerSide, mergeVars, uiVars, startVars>>
callVars == <<subject_keywords, subject_phrases, min_keyword_hits,
              DEFAULT_SUBJECT_KEYWORDS, DEFAULT_SUBJECT_PHRASES, restricted,
              scanned, yielded>>
comVars == <<co_initialize, co_uninitialize, ensure_running>>

\* lines 257-259: the globals are bound to copies of the caller's lists
Rebind ==
  /\ opc = "rebind"
  /\ DEFAULT_SUBJECT_KEYWORDS' = subject_keywords
  /\ DEFAULT_SUBJECT_PHRASES' = subject_phrases
  /\ opc' = "init_outlook"
  /\ UNCHANGED <<subject_keywords, subject_phrases, min_keyword_hits,
                 restricted, scanned, yielded, comVars>>
  /\ UNCHANGED notMapi

\* lines 188-212: the next recent message is examined; line 211 calls
\* subject_matches without keywords and phrases, so the parameters take the
\* default values they were given at line 86
ScanMessage ==
  /\ opc = "find_matching"
  /\ restricted # <<>>
  /\ LET subject == Head(restricted)
     IN  /\ scanned' = Append(scanned, subject)
         /\ yielded' = Append(yielded,
               subject_matches(subject, KeywordsAtDef, PhrasesAtDef, min_keyword_hits))
  /\ restricted' = Tail(restricted)
  /\ UNCHANGED <<opc, subject_keywords, subject_phrases, min_keyword_hits,
                 DEFAULT_SUBJECT_KEYWORDS, DEFAULT_SUBJECT_PHRASES, comVars>>
  /\ UNCHANGED notMapi

\* line 276: the scan is over, the DataFrame is built and returned
ReturnDataFrame ==
  /\ opc = "find_matching"
  /\ restricted = <<>>
  /\ opc' = "returned"
  /\ UNCHANGED <<subject_keywords, subject_phrases, min_keyword_hits,
                 DEFAULT_SUBJECT_KEYWORDS, DEFAULT_SUBJECT_PHRASES, restricted,
                 scanned, yielded, comVars>>
  /\ UNCHANGED notMapi

\* what a COM call does: it returns, raises pywintypes.com_error, or raises
\* an exception of another type (gencache's AttributeError, for one)
ComOutcomes == {"ok", "com_error", "error"}

\* line 32
CoInitialize ==
  /\ opc = "init_outlook"
  /\ co_initialize' = co_initialize + 1
  /\ opc' = "GetActiveObject"
  /\ UNCHANGED <<co_uninitialize, ensure_running, callVars>>
  /\ UNCHANGED notMapi

\* lines 34-37: an exception that is not a com_error passes both except
\* clauses (37 and 60) and leaves init_outlook
GetActiveObject(outcome) ==
  /\ opc = "GetActiveObject"
  /\ opc' = CASE outcome = "ok" -> "GetNamespace"
              [] outcome = "com_error" -> "EnsureDispatch"
              [] OTHER -> "raised"
  /\ UNCHANGED <<co_initialize, co_uninitialize, ensure_running, callVars>>
  /\ UNCHANGED notMapi

\* line 39
EnsureDispatch(outcome) ==
  /\ opc = "EnsureDispatch"
  /\ opc' = CASE outcome = "ok" -> "GetNamespace"
              [] outcome = "com_error" -> "except com_error"
              [] OTHER -> "raised"
  /\ UNCHANGED <<co_initialize, co_uninitialize, ensure_running, callVars>>
  /\ UNCHANGED notMapi

\* lines 41-58: the namespace is fetched; the Inbox lookups catch their own
\* exceptions; init_outlook returns and the scan of line 267 begins
GetNamespace(outcome) ==
  /\ opc = "GetNamespace"
  /\ opc' = CASE outcome = "ok" -> "find_matching"
              [] outcome = "com_error" -> "except com_error"
              [] OTHER -> "raised"
  /\ UNCHANGED <<co_initialize, co_uninitialize, ensure_running, callVars>>
  /\ UNCHANGED notMapi

\* lines 60-62 and 76-77: without ensure_running CoUninitialize is called and
\* RuntimeError raised
ExceptComError ==
  /\ opc = "except com_error"
  /\ IF ensure_running
       THEN /\ opc' = "retry"
            /\ UNCHANGED co_uninitialize
       ELSE /\ co_uninitialize' = co_uninitialize + 1
            /\ opc' = "raised"
  /\ UNCHANGED <<co_initialize, ensure_running, callVars>>
  /\ UNCHANGED notMapi

\* lines 63-74: Outlook is started and the connection tried once more; any
\* Exception there is answered by CoUninitialize and RuntimeError
RetryConnect(outcome) ==
  /\ opc = "retry"
  /\ IF outcome = "ok"
       THEN /\ opc' = "find_matching"
            /\ UNCHANGED co_uninitialize
       ELSE /\ co_uninitialize' = co_uninitialize + 1
            /\ opc' = "raised"
  /\ UNCHANGED <<co_initialize, ensure_running, callVars>>
  /\ UNCHANGED notMapi

NextMapi ==
  \/ Rebind
  \/ CoInitialize
  \/ \E outcome \in ComOutcomes : GetActiveObject(outcome)
  \/ \E outcome \in ComOutcomes : EnsureDispatch(outcome)
  \/ \E outcome \in ComOutcomes : GetNamespace(outcome)
  \/ ExceptComError
  \/ \E outcome \in ComOutcomes : RetryConnect(outcome)
  \/ ScanMessage
  \/ ReturnDataFrame

SpecMapi == MapiInit /\ [][NextMapi]_vars



(***************************************************************************)
(* What the claims are stated with.                                        *)

(***************************************************************************)
(* app_ui.py: vendor_update_process.  The input is the DataFrame, as the   *)
(* sequence of its rows; each step on the web form either is done or       *)
(* raises an exception, which the try block around it prints.              *)
(***************************************************************************)
MaxRows == 2

VendorRows ==
  { [company_code |-> "SG80", vendor_number |-> "10002345678"],
    [company_code |-> "MY10", vendor_number |-> "20004445556"] }

\* the steps of the entry sequence, in the order of lines 187-246
FormSteps == <<"company_code", "vendor_number", "vendor_name", "save">>

\* a call of vendor_update_process, the two lists being empty as at lines 284-285
UiInit ==
  /\ ListenerInit
  /\ MergeOff
  /\ MapiOff
  /\ StartOff
  /\ upc = "for"
  /\ df_vendor_update \in UNION {[1..n -> VendorRows] : n \in 0..MaxRows}
  /\ row_i = 1
  /\ typed = <<>>
  /\ list_company_code = <<>>
  /\ list_vendor_number = <<>>

notUi == <<listenerSide, mergeVars, mapiVars, startVars>>

\* lines 163-185: the loop takes the next row and the new-vendor form is opened
OpenForm ==
  /\ upc = "for"
  /\ row_i <= Len(df_vendor_update)
  /\ upc' = FormSteps[1]
  /\ UNCHANGED <<df_vendor_update, row_i, typed, list_company_code, list_vendor_number>>
  /\ UNCHANGED notUi

\* lines 187-246: one step of the entry sequence is tried
FormStep(k, done) ==
  /\ upc = FormSteps[k]
  /\ typed' = Append(typed, <<row_i, FormSteps[k], done>>)
  /\ upc' = IF k < Len(FormSteps) THEN FormSteps[k + 1] ELSE "append"
  /\ UNCHANGED <<df_vendor_update, row_i, list_company_code, list_vendor_number>>
  /\ UNCHANGED notUi

\* lines 248-250: the row is appended to the two lists, and the return
\* statement, which stands inside the loop body, ends the call
AppendAndReturn ==
  /\ upc = "append"
  /\ list_company_code' =
       Append(list_company_code, df_vendor_update[row_i].company_code)
  /\ list_vendor_number' =
       Append(list_vendor_number, df_vendor_update[row_i].vendor_number)
  /\ upc' = "returned"
  /\ UNCHANGED <<df_vendor_update, row_i, typed>>
  /\ UNCHANGED notUi

\* lines 252-255: the loop is over without a return, which takes an empty
\* DataFrame; the log is written up to line 255, where the local
\* vendor_number, never assigned, raises UnboundLocalError
LoopExhausted ==
  /\ upc = "for"
  /\ row_i > Len(df_vendor_update)
  /\ upc' = "raised"
  /\ UNCHANGED <<df_vendor_update, row_i, typed, list_company_code, list_vendor_number>>
  /\ UNCHANGED notUi

NextUi ==
  \/ OpenForm
  \/ \E k \in 1..Len(FormSteps), done \in BOOLEAN : FormStep(k, done)
  \/ AppendAndReturn
  \/ LoopExhausted

SpecUi == UiInit /\ [][NextUi]_vars

(***************************************************************************)
(* get_outlook_namespace (listener.py 283-352)                             *)
(***************************************************************************)
\* the largest retries argument tried
MaxRetries == 2

\* the builtin max of two integers
Max(a, b) == IF a >= b THEN a ELSE b

\* the retries a caller can pass: any integer, the negative ones included
RetriesArgs == -1..MaxRetries

\* what a call into win32com can do: return, raise AttributeError (a generated
\* module without its class maps), or raise another exception
CallOutcomes == {"ok", "AttributeError", "error"}

Call(name, outcome) == [call |-> name, outcome |-> outcome]

\* get_outlook_namespace(retries=r) is called
NsInit ==
  /\ ListenerInit
  /\ MergeOff
  /\ MapiOff
  /\ UiOff
  /\ TlOff
  /\ npc = "try"
  /\ retries_arg \in RetriesArgs
  /\ retries = retries_arg
  /\ binding = "none"
  /\ calls = <<>>

notNs == <<listenerSide, mergeVars, mapiVars, uiVars, tlVars>>

\* line 292: gencache.EnsureDispatch("Outlook.Application") inside the try
GencacheEnsureDispatch(outcome) ==
  /\ npc = "try"
  /\ calls' = Append(calls, Call("EnsureDispatch", outcome))
  /\ npc' = CASE outcome = "ok" -> "namespace"
              [] outcome = "AttributeError" -> "except"
              [] OTHER -> "raised"
  /\ binding' = IF outcome = "ok" THEN "early" ELSE binding
  /\ UNCHANGED <<retries_arg, retries>>
  /\ UNCHANGED notNs

\* lines 293 and 300: app.GetNamespace("MAPI"); line 293 stands in the try
\* whose handler takes AttributeError, line 300 in the try that re-raises
GetNamespaceMapi(outcome) ==
  /\ npc = "namespace"
  /\ calls' = Append(calls, Call("GetNamespace", outcome))
  /\ npc' = CASE outcome = "ok" -> "returned"
              [] outcome = "AttributeError" /\ binding = "early" -> "except"
              [] OTHER -> "raised"
  /\ UNCHANGED <<retries_arg, retries, binding>>
  /\ UNCHANGED notNs

\* the retries taken as used up while one is left
ExhaustedEarly(n) == n <= 1
\* line 296: the retries are used up
Exhausted(n) == n <= 0

\* line 352: the retries passed to the recursive call
RetriesLeft(n) == n - 1

\* lines 294-296: the handler of AttributeError chooses between the fallback
\* and the cleanup
ExceptAttributeError ==
  /\ npc = "except"
  /\ npc' = IF Exhausted(retries) THEN "fallback" ELSE "cleanup"
  /\ UNCHANGED <<retries_arg, retries, binding, calls>>
  /\ UNCHANGED notNs

\* lines 298-302: win32com.client.Dispatch("Outlook.Application"), late bound;
\* whatever it raises is raised again
LateDispatch(outcome) ==
  /\ npc = "fallback"
  /\ calls' = Append(calls, Call("Dispatch", outcome))
  /\ npc' = IF outcome = "ok" THEN "namespace" ELSE "raised"
  /\ binding' = IF outcome = "ok" THEN "late" ELSE binding
  /\ UNCHANGED <<retries_arg, retries>>
  /\ UNCHANGED notNs

\* lines 305-317: the error is logged and gencache.Rebuild() is called; when it
\* raises, the generated files are removed by hand
GencacheRebuild(outcome) ==
  /\ npc = "cleanup"
  /\ calls' = Append(calls, Call("Rebuild", outcome))
  /\ npc' = IF outcome = "ok" THEN "retry" ELSE "remove"
  /\ UNCHANGED <<retries_arg, retries, binding>>
  /\ UNCHANGED notNs

\* lines 319-346: the Outlook files of gen_py are unlinked; every exception of
\* a removal is swallowed
RemoveGenPy ==
  /\ npc = "remove"
  /\ calls' = Append(calls, Call("unlink", "ok"))
  /\ npc' = "retry"
  /\ UNCHANGED <<retries_arg, retries, binding>>
  /\ UNCHANGED notNs

\* line 352: return get_outlook_namespace(retries=retries - 1)
Recurse ==
  /\ npc = "retry"
  /\ retries' = RetriesLeft(retries)
  /\ npc' = "try"
  /\ binding' = "none"
  /\ UNCHANGED <<retries_arg, calls>>
  /\ UNCHANGED notNs

NextNs ==
  \/ \E outcome \in CallOutcomes : GencacheEnsureDispatch(outcome)
  \/ \E outcome \in CallOutcomes : GetNamespaceMapi(outcome)
  \/ ExceptAttributeError
  \/ \E outcome \in CallOutcomes : LateDispatch(outcome)
  \/ \E outcome \in {"ok", "error"} : GencacheRebuild(outcome)
  \/ RemoveGenPy
  \/ Recurse

\* the interpreter runs the call on: each of its calls into COM comes back
SpecNs == NsInit /\ [][NextNs]_vars /\ WF_vars(NextNs)

(***************************************************************************)
(* ensure_outlook_typelib (listener.py 60-122)                             *)
(***************************************************************************)
\* the number of versions in OUTLOOK_TYPELIB_VERSIONS (five in the source)
MaxVersions == 2

\* lines 26-32, the versions numbered from 1
OUTLOOK_TYPELIB_VERSIONS == [i \in 1..MaxVersions |-> i]

\* the version the running application reports when it is none of the known
DynamicVersion == 0

\* the app argument: None, an application whose type library is one of the
\* known versions or a new one, or one whose inspection raises
AppArgs == {"None", "known", "new", "broken"}

\* lines 136-139
RequiredAttrs == {"CLSIDToClassMap", "CLSIDToPackageMap", "MinorVersion"}
module_has_any_attr(m) == m \cap RequiredAttrs # {}
module_has_required_attrs(m) == \A attr \in RequiredAttrs : attr \in m

\* a generated module is known by the attributes it exposes
Modules == SUBSET RequiredAttrs

\* lines 125-133: _load_outlook_module returns (module, None), where
\* EnsureModule may have returned None, or (None, err)
LoadResults ==
  {<<m, "None">> : m \in Modules \cup {NoModule}} \cup {<<NoModule, "EnsureModuleError">>}

\* lines 93 and 104: module and _module_has_required_attrs(module)
Usable(m) == m # NoModule /\ module_has_required_attrs(m)

\* lines 96-97 and 106-109: a module without the attributes counts as an error
ErrAfterLoad(m, e, name) == IF e = "None" /\ m # NoModule THEN name ELSE e

TlInit ==
  /\ ListenerInit
  /\ MergeOff
  /\ MapiOff
  /\ UiOff
  /\ NsOff
  /\ tpc = "inspect"
  /\ app \in AppArgs
  /\ tl_retries \in RetriesArgs
  /\ candidates = <<>>
  /\ attempts = 0
  /\ attempt = 0
  /\ cand = 1
  /\ module = NoModule
  /\ err = "None"
  /\ last_err = "None"
  /\ cleared = <<>>
  /\ tried = {}

notTl == <<listenerSide, mergeVars, mapiVars, uiVars, nsVars>>

\* lines 64-88: the candidates are the known versions, with the application's
\* own version in front when it is a new one; attempts = max(retries, 0) + 1
Inspect ==
  /\ tpc = "inspect"
  /\ candidates' = IF app = "new"
                     THEN <<DynamicVersion>> \o OUTLOOK_TYPELIB_VERSIONS
                     ELSE OUTLOOK_TYPELIB_VERSIONS
  /\ attempts' = Max(tl_retries, 0) + 1
  /\ attempt' = 0
  /\ cand' = 1
  /\ tpc' = "load"
  /\ UNCHANGED <<app, tl_retries, module, err, last_err, cleared, tried>>
  /\ UNCHANGED notTl

\* lines 92-100: the candidate's module is loaded
Load(result) ==
  /\ tpc = "load"
  /\ module' = result[1]
  /\ tried' = tried \cup {<<attempt, cand>>}
  /\ err' = IF Usable(result[1])
              THEN result[2]
              ELSE ErrAfterLoad(result[1], result[2], "AttributeError")
  /\ tpc' = IF Usable(result[1]) THEN "returned"
            ELSE IF err' # "None" THEN "generate" ELSE "next"
  /\ last_err' = IF ~Usable(result[1]) /\ err' # "None" THEN err' ELSE last_err
  /\ UNCHANGED <<app, tl_retries, candidates, attempts, attempt, cand, cleared>>
  /\ UNCHANGED notTl

\* lines 101-102 and 110-111: the cached module is invalidated and makepy is
\* run; when no spec could be generated the error is kept
Generate(generated) ==
  /\ tpc = "generate"
  /\ tpc' = IF generated THEN "reload" ELSE "next"
  /\ last_err' = IF generated THEN last_err ELSE err
  /\ UNCHANGED <<app, tl_retries, candidates, attempts, attempt, cand, module,
                 err, cleared, tried>>
  /\ UNCHANGED notTl

\* lines 103-111: the regenerated module is loaded
Reload(result) ==
  /\ tpc = "reload"
  /\ module' = result[1]
  /\ err' = IF Usable(result[1])
              THEN result[2]
              ELSE ErrAfterLoad(result[1], result[2], "AttributeErrorAfterRegeneration")
  /\ tpc' = IF Usable(result[1]) THEN "returned" ELSE "next"
  /\ last_err' = IF ~Usable(result[1]) /\ err' # "None" THEN err' ELSE last_err
  /\ UNCHANGED <<app, tl_retries, candidates, attempts, attempt, cand, cleared,
                 tried>>
  /\ UNCHANGED notTl

\* line 91: the inner loop goes to the next candidate, or is over
NextCandidate ==
  /\ tpc = "next"
  /\ IF cand < Len(candidates)
       THEN cand' = cand + 1 /\ tpc' = "load"
       ELSE cand' = cand /\ tpc' = "pass_over"
  /\ UNCHANGED <<app, tl_retries, candidates, attempts, attempt, module, err,
                 last_err, cleared, tried>>
  /\ UNCHANGED notTl

\* line 113: whether another pass follows
MorePasses == attempt < attempts - 1

\* lines 113-118 and 90: the cache is cleared and rebuilt, a failing Rebuild
\* only being remembered, and the next pass begins
ClearAndRebuild(rebuilt) ==
  /\ tpc = "pass_over"
  /\ MorePasses
  /\ cleared' = Append(cleared, attempt)
  /\ last_err' = IF rebuilt THEN last_err ELSE "RebuildError"
  /\ attempt' = attempt + 1
  /\ cand' = 1
  /\ tpc' = "load"
  /\ UNCHANGED <<app, tl_retries, candidates, attempts, module, err, tried>>
  /\ UNCHANGED notTl

\* lines 120-122: after the last pass last_err, or a RuntimeError, is raised
RaiseLastErr ==
  /\ tpc = "pass_over"
  /\ ~MorePasses
  /\ tpc' = "raised"
  /\ UNCHANGED <<app, tl_retries, candidates, attempts, attempt, cand, module,
                 err, last_err, cleared, tried>>
  /\ UNCHANGED notTl

NextTl ==
  \/ Inspect
  \/ \E result \in LoadResults : Load(result)
  \/ \E generated \in BOOLEAN : Generate(generated)
  \/ \E result \in LoadResults : Reload(result)
  \/ NextCandidate
  \/ \E rebuilt \in BOOLEAN : ClearAndRebuild(rebuilt)
  \/ RaiseLastErr

SpecTl == TlInit /\ [][NextTl]_vars

(***************************************************************************)
\* the subject is a string that contains a configured keyword phrase, upper
\* and lower case taken as the same
MentionsKeyword(subj) ==
  /\ ~subj.isNone
  /\ \E i \in 1..Len(KEYWORDS) :
       \E off \in 0..(Len(subj.text) - Len(KEYWORDS[i])) :
         \A j \in 1..Len(KEYWORDS[i]) :
           LowerChar(subj.text[off + j]) = KEYWORDS[i][j]

\* worker threads whose external worker process is alive
InFlight == {t \in Threads : wpc[t] = "running"}

\* the step in which thread t returns from worker_task
Finishes(t) == wpc[t] \in {"log", "unlink", "except"} /\ wpc'[t] = "idle"

\* the jobs run_worker has started, in order ("Starting automation for ...")
IsStart(l) == l.kind = "starting"
Starts == SelectSeq(workerOut, IsStart)
\* the outcomes recorded so far: every task ends by exactly one of the lines
\* "Worker completed", "Worker failed", "worker_task error for"
IsVerdict(l) == l.kind \in {"completed", "failed"}
IsError(l) == l.kind = "error"
NumOutcomes == Len(SelectSeq(workerOut, IsVerdict)) + Len(SelectSeq(runnerLog, IsError))

(***************************************************************************)
(* C1: whatever the enqueue_worker calls, also from two threads while a    *)
(* job runs, at most one external worker process is alive at any instant.  *)
(***************************************************************************)
C1_AtMostOneInFlight == Cardinality(InFlight) <= 1

\* a worker process is alive while a call of enqueue_worker, made on the
\* second thread, is about to submit another job
C1_Witness ==
  /\ InFlight # {}
  /\ pc["second"] = "submit"

C4_Original ==
  [][\A t \in Threads :
       /\ (wrc[t] = 1 /\ wpc'[t] # wpc[t]) => archive' = archive
       /\ (Finishes(t) /\ wrc[t] = 1) => HasFile(queueDir', wjob[t])]_vars

C6_Original ==
  \A i, j \in 1..Len(written) : i # j => written[i] # written[j]

(***************************************************************************)
(* C7: a record written before another has the file name that sorts        *)
(* strictly before the other's.                                            *)
(***************************************************************************)
C7_Original ==
  \A i, j \in 1..Len(written) : i < j => NameLess(written[i], written[j])

(***************************************************************************)
(* C8: OnItemAdd has no side effect for a mail item whose subject contains *)
(* no keyword phrase: it returns, and no directory, log, executor or       *)
(* worker state has changed.                                               *)
(***************************************************************************)
C8_NoSideEffect ==
  [][\A c \in Callers :
       (pc[c] = "OnItemAdd" /\ pc'[c] # "OnItemAdd"
          /\ ~MentionsKeyword(item[c].Subject)) =>
            /\ pc'[c] = "idle"
            /\ UNCHANGED <<dirVars, written, errLog, escaped, executorVars,
                           workerVars>>]_vars

\* after a job file was written for an earlier mail, OnItemAdd is called with
\* a mail item whose subject has no keyword phrase
C8_Witness ==
  \E c \in Callers :
    /\ pc[c] = "OnItemAdd"
    /\ item[c].Class = olMailItem
    /\ ~MentionsKeyword(item[c].Subject)
    /\ written # <<>>

(***************************************************************************)
(* C9: a matching mail item whose record is written produces one new file  *)
(* of the queue directory, and that file carries the record of the item.   *)
(***************************************************************************)
C9_Original ==
  [][\A c \in Callers :
       (pc[c] = "write_text" /\ pc'[c] = "copy2") =>
          /\ ~HasFile(queueDir, path'[c])
          /\ HasFile(queueDir', path'[c])
          /\ queueDir'[path'[c]] = Payload(item[c], cur[c])]_vars

(***************************************************************************)
(* C10: whether or not the backup copy fails, write_temp_json returns the  *)
(* path of the queue file and OnItemAdd goes on to enqueue the job.        *)
(***************************************************************************)
C10_Original ==
  [][\A c \in Callers :
       (pc[c] = "copy2" /\ pc'[c] # "copy2") =>
          /\ pc'[c] = "enqueue"
          /\ path'[c] = path[c]]_vars

(***************************************************************************)
(* C11: no error raised while one mail item is handled, the writing of the *)
(* error line included, leaves OnItemAdd.                                  *)
(***************************************************************************)
C11_Original == escaped = 0

\* the places of run_worker that raise: the launch of the worker, the
\* append to the runner log, the archive copy
Raises(t) == wpc[t] \in {"launch", "log", "archive"} /\ wpc'[t] = "except"

C13_OneExecutor ==
  /\ [](/\ nExecutors <= 1
        /\ (executor = None) <=> (nExecutors = 0)
        /\ nExecutors = 1 =>
             \/ \E c \in Callers : pc[c] = "submit"
             \/ submitted # <<>>
        /\ \A c \in Callers :
             /\ pc[c] = "submit" => exe[c] # None
             /\ exe[c] # None => exe[c] = executor
        /\ \A e \in ExecutorIds : (queue[e] # <<>> \/ nThreads[e] > 0) => e = executor)
  /\ [][nExecutors' # nExecutors =>
          \E c \in Callers : pc[c] = "construct" /\ pc'[c] = "submit"]_vars

\* two calls were under way at once and both have returned the same executor
C13_Witness ==
  /\ pc["pump"] = "submit"
  /\ pc["second"] = "submit"
  /\ exe["pump"] = exe["second"]
  /\ nExecutors = 1

\* the steps OnItemAdd can take on thread c once it has been called
CallbackStep(c) ==
  \/ OnItemAdd(c)
  \/ \E t \in ClockReadings[now] : ReadTs(c, t)
  \/ \E t \in ClockReadings[now] : WriteText(c, t)
  \/ BackupCopy(c)
  \/ OnItemAddExcept(c)
  \/ EnsureAcquire(c)
  \/ EnsureCheck(c)
  \/ EnsureCreate(c)
  \/ Submit(c)

(***************************************************************************)
(* C14: OnItemAdd never waits for a job: whatever the worker threads are   *)
(* doing, a callback that has been entered can take its next step, up to   *)
(* its return, or waits for _executor_lock held by another callback that   *)
(* can; the steps of the callback start no worker and touch nothing of a   *)
(* running invocation, and the worker process is only ever started and     *)
(* awaited on a thread of the executor.                                    *)
(***************************************************************************)
C14_CallbackNeverWaits ==
  /\ [](\A c \in Callers :
          pc[c] # "idle" =>
             \/ ENABLED CallbackStep(c)
             \/ /\ pc[c] = "enqueue"
                /\ lock \in Callers \ {c}
                /\ ENABLED CallbackStep(lock))
  /\ [][\A c \in Callers :
          pc'[c] # pc[c] =>
             /\ UNCHANGED <<wjob, wrc, wexc, runnerLog, workerOut>>
             /\ \A t \in Threads :
                  wpc'[t] # wpc[t] => (wpc[t] = "unstarted" /\ wpc'[t] = "idle")]_vars
  /\ [][\A t \in Threads :
          (wpc'[t] = "running" /\ wpc[t] # "running") =>
             /\ t[1] = executor
             /\ UNCHANGED listenerVars]_vars

\* OnItemAdd has returned on the listening thread from enqueuing the second
\* job while the worker of the first job is still running
C14_Witness ==
  /\ InFlight # {}
  /\ Len(submitted) = 2
  /\ \E e \in ExecutorIds : Len(queue[e]) = 1
  /\ pc["pump"] = "idle"
  /\ pc["second"] = "idle"

(***************************************************************************)
(* C15: when the worker exited 0, the archive copy was made and the delete *)
(* of the original fails, the delete error is written to a log and the job *)
(* ends as completed, with no exception raised.                            *)
(***************************************************************************)
C15_Original ==
  [][\A t \in Threads :
       (/\ wpc[t] = "unlink"
        /\ wpc'[t] # "unlink"
        /\ HasFile(queueDir, wjob[t])
        /\ HasFile(queueDir', wjob[t])) =>
          /\ wpc'[t] = "idle"
          /\ workerOut' = Append(workerOut, ConsoleLine("completed", wjob[t]))
          /\ \/ Len(runnerLog') > Len(runnerLog)
             \/ Len(errLog') > Len(errLog)]_vars

\* how often the job file named n occurs in a sequence of names
Count(n, names) == Cardinality({i \in 1..Len(names) : names[i] = n})
StartedJobs == [i \in 1..Len(Starts) |-> Starts[i].job]

(***************************************************************************)
(* C16: a Job, the job file of one name, is written, then submitted once,  *)
(* then run by at most one invocation: it is never submitted or started a  *)
(* second time, whatever the outcome of its invocation was.                *)
(***************************************************************************)
C16_Original ==
  \A i \in 1..Len(submitted) :
    LET n == submitted[i]
    IN  /\ Count(n, written) >= 1
        /\ Count(n, submitted) = 1
        /\ Count(n, StartedJobs) <= 1

(***************************************************************************)
(* C17: no step changes the content of a file that is in the queue         *)
(* directory; a file of the queue directory goes away only by the delete   *)
(* that follows the archive copy of a run with exit code 0.                *)
(***************************************************************************)
C17_Original ==
  [][\A n \in DOMAIN queueDir :
       IF HasFile(queueDir', n)
         THEN queueDir'[n] = queueDir[n]
         ELSE \E t \in Threads :
                /\ wpc[t] = "unlink"
                /\ wjob[t] = n
                /\ wrc[t] = 0
                /\ HasFile(archive, n)]_vars

(***************************************************************************)
(* C18: the record of a written Job is never lost: a step that takes the   *)
(* record away from its queue file leaves it in the archive file of the    *)
(* same name, and a record in the archive stays there.                     *)
(***************************************************************************)
C18_Original ==
  [][/\ \A n \in DOMAIN queueDir :
          \/ HasFile(queueDir', n) /\ queueDir'[n] = queueDir[n]
          \/ HasFile(archive', n) /\ archive'[n] = queueDir[n]
     /\ \A n \in DOMAIN archive :
          \/ HasFile(archive', n) /\ archive'[n] = archive[n]
          \/ HasFile(queueDir', n) /\ queueDir'[n] = archive[n]]_vars

\* the jobs that wait in a work queue or are held by a worker thread
Pending == {n \in DOMAIN queueDir :
              \/ \E e \in ExecutorIds : \E i \in 1..Len(queue[e]) : queue[e][i] = n
              \/ \E t \in Threads : wjob[t] = n}

(***************************************************************************)
(* C19: the archive copy of a successful job is put under the name of the  *)
(* job file and holds the record that was written for the job: the copy is *)
(* exact, and the record of a job file does not change between its write   *)
(* and the copy.                                                           *)
(***************************************************************************)
C19_Original ==
  [][/\ \A t \in Threads :
          (wpc[t] = "archive" /\ wpc'[t] = "unlink") =>
             archive' = PutFile(archive, wjob[t], queueDir[wjob[t]])
     /\ \A n \in Pending :
          HasFile(queueDir', n) => queueDir'[n] = queueDir[n]]_vars

\* the files whose reading raised after one or more of their pages were added
HalfRead == {f \in PdfFiles : pdfs[f].fails /\ pdfs[f].added > 0}

(***************************************************************************)
(* C20: an original leaves the source folder only in cleanup_originals,    *)
(* when the merged file of its group has been written with the merged      *)
(* pages, the merged page count equals the sum of the page counts of the   *)
(* processed files, and the file is one of them; no file of a group that   *)
(* holds a half-read file ever leaves the folder; with dry_run nothing is  *)
(* written, moved or deleted.                                              *)
(***************************************************************************)
C20_CleanupSafeguard ==
  /\ [][\A f \in present \ present' :
          /\ mpc = "cleanup_originals"
          /\ ~dry_run
          /\ cleanup_mode \in {"quarantine", "delete"}
          /\ f[1] = base
          /\ PlainName(base) \in DOMAIN dest
          /\ dest[PlainName(base)] = writer
          /\ writer = SumCounts(page_counts, DOMAIN page_counts)
          /\ f \in DOMAIN page_counts
          /\ ~pdfs[f].fails]_vars
  /\ [](\A f \in HalfRead : \A g \in PdfFiles : g[1] = f[1] => g \in present)
  /\ [](dry_run => (present = PdfFiles /\ dest = <<>> /\ quarantine = {}))
  /\ [](quarantine \cap present = {})

\* the call has returned: the group with a half-read file and a processed
\* file was merged and kept whole, the originals of the other group are gone
C20_Witness ==
  /\ mpc = "returned"
  /\ \E f \in HalfRead : \E g \in PdfFiles \ {f} :
       /\ g[1] = f[1]
       /\ ~pdfs[g].fails
       /\ pdfs[g].added > 0
       /\ PlainName(f[1]) \in DOMAIN dest
  /\ present # PdfFiles

(***************************************************************************)
(* C21: a call of save_and_move with overwrite=False leaves every merged   *)
(* file that is in dest_dir in place, with its content.                    *)
(***************************************************************************)
C21_Original ==
  [][(dest' # dest /\ ~overwrite') =>
        \A n \in DOMAIN dest : n \in DOMAIN dest' /\ dest'[n] = dest[n]]_vars

(***************************************************************************)
(* C22: a scanned message is yielded exactly when its subject matches the  *)
(* keyword and phrase lists the caller passed to                           *)
(* get_esker_vendor_updates_df.                                            *)
(***************************************************************************)
C22_Original ==
  \A i \in 1..Len(scanned) :
    yielded[i] <=> subject_matches(scanned[i], subject_keywords, subject_phrases,
                                   min_keyword_hits)

(***************************************************************************)
(* C24: init_outlook calls CoInitialize once, on entry; when it has raised *)
(* CoUninitialize has been called exactly once, and when it has returned   *)
(* CoUninitialize has not been called.                                     *)
(***************************************************************************)
C24_Original ==
  /\ co_initialize = (IF opc \in {"off", "rebind", "init_outlook"} THEN 0 ELSE 1)
  /\ opc = "raised" => co_uninitialize = 1
  /\ opc \in {"find_matching", "returned"} => co_uninitialize = 0

\* the rows for which the step named field was tried, in order
RowsTried(field) ==
  LET IsField(e) == e[2] = field
      es == SelectSeq(typed, IsField)
  IN  [j \in 1..Len(es) |-> es[j][1]]

(***************************************************************************)
(* C23: when vendor_update_process has finished, each step of the entry    *)
(* sequence was tried once for every row of the DataFrame, in index order, *)
(* and the two lists hold the company code and the vendor number of every  *)
(* row.                                                                    *)
(***************************************************************************)
C23_Original ==
  upc \in {"returned", "raised"} =>
    /\ \A k \in 1..Len(FormSteps) :
         RowsTried(FormSteps[k]) = [j \in 1..Len(df_vendor_update) |-> j]
    /\ list_company_code =
         [j \in 1..Len(df_vendor_update) |-> df_vendor_update[j].company_code]
    /\ list_vendor_number =
         [j \in 1..Len(df_vendor_update) |-> df_vendor_update[j].vendor_number]

\* thread t is inside subprocess.run before and after the step
StillRunning(t) == wpc[t] = "running" /\ wpc'[t] = "running"

(***************************************************************************)
(* C25: as long as a worker process has not exited, no other task is       *)
(* started and no task leaves the work queue, so a worker that never exits *)
(* holds back every job submitted after it; meanwhile the Inbox can still  *)
(* deliver items and every callback that was entered can go on writing and *)
(* enqueuing.                                                              *)
(***************************************************************************)
C25_HungWorkerBlocks ==
  /\ [][\A t \in Threads :
          StillRunning(t) =>
             /\ \A u \in Threads \ {t} : wpc'[u] \in {"unstarted", "idle"}
             /\ Starts' = Starts
             /\ \A e \in ExecutorIds : Len(queue'[e]) >= Len(queue[e])]_vars
  /\ [](InFlight # {} =>
          \A c \in Callers :
            /\ (pc[c] = "idle" /\ delivered < MaxItems) =>
                  ENABLED (\E it \in GoodItems : Deliver(c, it))
            /\ pc[c] # "idle" =>
                  \/ ENABLED CallbackStep(c)
                  \/ /\ pc[c] = "enqueue"
                     /\ lock \in Callers \ {c}
                     /\ ENABLED CallbackStep(lock))

\* the worker of the first job has not exited; every later item was
\* delivered, written and submitted, and none of those jobs has started
C25_Witness ==
  /\ \E t \in Threads : wpc[t] = "running" /\ wjob[t] = submitted[1]
  /\ delivered = MaxItems
  /\ Len(submitted) = MaxItems
  /\ Len(written) = MaxItems
  /\ Len(Starts) = 1

NsDone == npc \in {"returned", "raised"}

\* the positions in calls of the calls of one name
CallsOf(name) == {i \in 1..Len(calls) : calls[i].call = name}

\* what holds of the calls get_outlook_namespace has made, with limit as the
\* most EnsureDispatch attempts allowed
NsCallsWithin(limit) ==
  /\ Cardinality(CallsOf("EnsureDispatch")) <= limit
  \* a cleanup has an attempt before it and, once the call is over, after it
  /\ \A i \in CallsOf("Rebuild") \cup CallsOf("unlink") :
       /\ \E j \in CallsOf("EnsureDispatch") : j < i
       /\ NsDone => \E j \in CallsOf("EnsureDispatch") : j > i
  \* the late-binding fallback: once, with no retries left, and last
  /\ \A i \in CallsOf("Dispatch") :
       /\ retries <= 0
       /\ CallsOf("Dispatch") = {i}
       /\ \A j \in CallsOf("EnsureDispatch") : j < i
  \* a return hands out the namespace GetNamespace gave
  /\ npc = "returned" => /\ calls # <<>>
                         /\ calls[Len(calls)] = Call("GetNamespace", "ok")
  \* another exception than AttributeError ends the call at once
  /\ \A i \in 1..Len(calls) :
       (calls[i].outcome = "error" /\ calls[i].call # "Rebuild") =>
          i = Len(calls) /\ npc = "raised"

Passes == 0..Max(tl_retries, 0)

TypeOK ==
  /\ now \in 0..MaxClock
  /\ delivered \in 0..MaxItems

====
